---- MODULE Spec2Model ----
(***************************************************************************)
(* The retrieval-augmented generation (RAG) engine of the Ego              *)
(* consciousness uploader: the per-session VectorStore (add, search, save, *)
(* load, clear), the indexer (indexSession), the session orchestrator      *)
(* (initRAG) and the query path (ragQuery, generateAnswer), as driven by   *)
(* concurrent handleChat requests.                                         *)
(*                                                                         *)
(* Two specifications share the state:                                     *)
(*   SpecStore  one caller driving the VectorStore API and indexSession    *)
(*              call by call (each call awaited before the next);          *)
(*   Spec       concurrent handleChat requests, one step per await.        *)
(***************************************************************************)
EXTENDS Integers, Sequences, FiniteSets, TLC

\* ------------------------------------------------------------------ bounds
\* Number of concurrent handleChat requests.
NumReqs == 2
\* Number of VectorStore API calls one caller issues under SpecStore.
MaxOps == 4
\* Largest topK a caller passes to search.
MaxTopK == 3
\* Largest store search is tried on under SpecSearch.
MaxDocs == 3
\* Longest conversation history a caller passes to the query handle.
MaxHistory == 6
\* Number of addToConversationHistory calls under SpecState.
MaxExchanges == 4
MaxResults == 2
MaxChats == 2
MaxQueries == 2

\* ------------------------------------------------------------- value domains
Sessions == {"s1", "s2", "s3", "s4"}
Reqs == 1..NumReqs

\* The handle the single caller of SpecStore drives.
ApiHandle == CHOOSE h \in Reqs : \A o \in Reqs : h <= o

\* Embedding vectors. Cosine similarity is scale invariant, so the vectors
\* [1,0], [0,1], [0.7,0.7] are kept as integers scaled by ten.
EmbedVec(text) ==
  CASE text = "ta" -> <<10, 0>>
    [] text = "tb" -> <<0, 10>>
    [] text = "tc" -> <<7, 7>>
    [] text = "qn" -> <<-10, 0>>
    [] OTHER -> <<10, 0>>

Texts == {"ta", "tb", "tc"}

\* The questions asked; "qn" points away from every stored text.
Questions == {"ta", "tc", "qn"}

\* The messages handleChat is called with.
ChatQuestions == {"tc"}

\* A JS value that reads as undefined (a missing key reads the same).
Undefined == "undefined"

MetaKeys == {"url", "topic", "knowledge_domain"}

\* A scraped content item; knowledge_domain is optional in the scraper's
\* ContentItem type, so it may be undefined.
Item(text, topic, kd) == [text |-> text, topic |-> topic, knowledge_domain |-> kd]

\* Whether data/scraped/<sessionId>.json exists: "s3" was never scraped.
\* The scrape of "s4" found no content: its file has no source.
HasScraped(s) == s # "s3"

\* scrapedData.scraped_content of data/scraped/<sessionId>.json, the file
\* indexSession and initRAG read.
ScrapedData(s) ==
  CASE s = "s1" ->
         << [url |-> "u1", content_items |-> << Item("ta", "t1", Undefined),
                                                Item("tb", "t2", "ai") >>],
            [url |-> "u2", content_items |-> << Item("tc", "t1", "ai") >>] >>
    [] s = "s2" ->
         << [url |-> "u3", content_items |-> << Item("tc", "t3", Undefined) >>] >>
    [] OTHER -> <<>>

\* masterPrompt of the same file; the file of "s2" has none.
MasterPrompt(s) == IF s = "s1" THEN "persona1" ELSE Undefined

\* profile.master_prompt of the session's profile row.
ProfileMasterPrompt(s) == MasterPrompt(s)

\* The rows getConversationHistory returns to a handler: one earlier
\* exchange for "s1", nothing for the other sessions.
StoredHistory(s) ==
  IF s = "s1"
  THEN << [role |-> "user", content |-> "hi", audio_url |-> Undefined],
          [role |-> "assistant", content |-> "hello", audio_url |-> "a1"] >>
  ELSE <<>>

RECURSIVE FlatFrom(_, _)
FlatFrom(sources, i) ==
  IF i > Len(sources) THEN <<>>
  ELSE [j \in 1..Len(sources[i].content_items) |->
          [url |-> sources[i].url, item |-> sources[i].content_items[j]]]
       \o FlatFrom(sources, i + 1)

\* The items with the outer loop going through the sources backwards.
FlatItemsLastSourceFirst(s) ==
  LET d == ScrapedData(s)
  IN FlatFrom([i \in 1..Len(d) |-> d[Len(d) + 1 - i]], 1)

\* The order in which indexSession's two nested loops visit the items.
FlatItems(s) == FlatFrom(ScrapedData(s), 1)

\* add() generates at most as many ids per handle as the largest session has
\* items.
PoolSize == Len(FlatItems("s1"))

\* ------------------------------------------------------------ VectorStore
\* Document ids. An id is a pair: <<0, j>> is an id the caller passes in
\* doc.id, <<h, j>> (h a handle) is an id add() generates for handle h as
\* `doc_${Date.now()}_${Math.random()}`. Ids are compared as the strings
\* would be: lexicographically.
NoId == <<0, 0>>
ExplicitIds == {<<0, 1>>}
GenPool(h) == {<<h, j>> : j \in 1..PoolSize}

IdLess(x, y) == x[1] < y[1] \/ (x[1] = y[1] /\ x[2] < y[2])

EmptyMeta == [k \in MetaKeys |-> Undefined]

Min(a, b) == IF a < b THEN a ELSE b
Max(a, b) == IF a > b THEN a ELSE b

DocIds(docs) == {docs[i].id : i \in 1..Len(docs)}

\* VectorStore.add(doc): push {id: doc.id || generated, text, metadata:
\* doc.metadata || {}, embedding}. genId is the generated id, used only when
\* doc.id is missing. An omitted doc.metadata is EmptyMeta already: {} reads
\* undefined at every key.
VectorStoreAdd(docs, doc, genId) ==
  Append(docs, [id |-> IF doc.id # NoId THEN doc.id ELSE genId,
                text |-> doc.text,
                metadata |-> doc.metadata,
                embedding |-> doc.embedding])

\* cosineSimilarity(a, b) of embeddings.js: the normalized dot product
\* dot / (|a| |b|), kept exact as the pair (dot, |a|^2 |b|^2).
Dot(a, b) == a[1] * b[1] + a[2] * b[2]

cosineSimilarity(a, b) == [dot |-> Dot(a, b), nn |-> Dot(a, a) * Dot(b, b)]

\* x.dot / sqrt(x.nn) > y.dot / sqrt(y.nn), for nn > 0.
ScoreGreater(x, y) ==
  IF x.dot >= 0 /\ y.dot < 0 THEN TRUE
  ELSE IF x.dot < 0 /\ y.dot >= 0 THEN FALSE
  ELSE IF x.dot >= 0 THEN x.dot * x.dot * y.nn > y.dot * y.dot * x.nn
  ELSE x.dot * x.dot * y.nn < y.dot * y.dot * x.nn

ScoreEqual(x, y) == ~ScoreGreater(x, y) /\ ~ScoreGreater(y, x)

\* Array.prototype.sort((a, b) => b.score - a.score): a stable sort by
\* descending score, so equal scores keep their order in the array.
RECURSIVE InsertByScore(_, _)
InsertByScore(sorted, x) ==
  IF sorted = <<>> THEN <<x>>
  ELSE IF ScoreGreater(x.score, Head(sorted).score)
       THEN <<x>> \o sorted
       ELSE <<Head(sorted)>> \o InsertByScore(Tail(sorted), x)

RECURSIVE SortByScoreDesc(_)
SortByScoreDesc(seq) ==
  IF seq = <<>> THEN <<>>
  ELSE InsertByScore(SortByScoreDesc(SubSeq(seq, 1, Len(seq) - 1)), seq[Len(seq)])

\* Array.prototype.slice(0, end): a negative end counts from the end.
Slice0(seq, end) ==
  LET e == IF end < 0 THEN Max(Len(seq) + end, 0) ELSE Min(end, Len(seq))
  IN SubSeq(seq, 1, e)

Scored(docs, queryEmbedding) ==
  [i \in 1..Len(docs) |->
     [id |-> docs[i].id, text |-> docs[i].text, metadata |-> docs[i].metadata,
      embedding |-> docs[i].embedding,
      score |-> cosineSimilarity(queryEmbedding, docs[i].embedding)]]

\* VectorStore.search(queryEmbedding, topK): map, sort, slice.
SearchNoSort(docs, queryEmbedding, topK) ==
  Slice0(Scored(docs, queryEmbedding), topK)

SearchOffByOne(docs, queryEmbedding, topK) ==
  Slice0(SortByScoreDesc(Scored(docs, queryEmbedding)), topK - 1)

VectorStoreSearch(docs, queryEmbedding, topK) ==
  Slice0(SortByScoreDesc(Scored(docs, queryEmbedding)), topK)

\* A search that scores and sorts this.documents itself instead of a copy.
SearchScoringInPlace(docs, queryEmbedding, topK) ==
  SortByScoreDesc(Scored(docs, queryEmbedding))

\* this.documents after search(queryEmbedding, topK): map() builds a new
\* array of new objects ({...doc, score}), and sort and slice work on that.
VectorStoreAfterSearch(docs, queryEmbedding, topK) == docs

\* ------------------------------------------------------- snapshot files
\* A snapshot file is absent, holds text that is no JSON, or holds a JSON
\* array. JSON.stringify writes an object's keys whose value is not
\* undefined; JSON.parse gives objects whose missing keys read undefined.
Absent == [kind |-> "absent", entries |-> <<>>]
Garbage == [kind |-> "garbage", entries |-> <<>>]

JsonObject(meta) == {<<k, meta[k]>> : k \in {x \in MetaKeys : meta[x] # Undefined}}

JsonRead(obj, k) ==
  IF \E p \in obj : p[1] = k THEN (CHOOSE p \in obj : p[1] = k)[2] ELSE Undefined

StringifyWithoutMetadata(docs) ==
  [kind |-> "array",
   entries |-> [i \in 1..Len(docs) |->
      [id |-> docs[i].id, text |-> docs[i].text,
       metadata |-> {},
       embedding |-> docs[i].embedding]]]

\* JSON.stringify(this.documents, null, 2)
JsonStringify(docs) ==
  [kind |-> "array",
   entries |-> [i \in 1..Len(docs) |->
      [id |-> docs[i].id, text |-> docs[i].text,
       metadata |-> JsonObject(docs[i].metadata),
       embedding |-> docs[i].embedding]]]

\* JSON.parse(data), for a file that holds a JSON array.
JsonParse(file) ==
  [i \in 1..Len(file.entries) |->
      [id |-> file.entries[i].id, text |-> file.entries[i].text,
       metadata |-> [k \in MetaKeys |-> JsonRead(file.entries[i].metadata, k)],
       embedding |-> file.entries[i].embedding]]

\* A load() that never finds a snapshot.
LoadAlwaysEmpty(docs, file) == [documents |-> <<>>, raised |-> FALSE]

\* A load() that raises on a snapshot without documents.
LoadEmptySnapshotRaises(docs, file) ==
  IF file.kind = "absent" THEN [documents |-> <<>>, raised |-> FALSE]
  ELSE IF file.kind = "garbage" \/ Len(file.entries) = 0
  THEN [documents |-> docs, raised |-> TRUE]
  ELSE [documents |-> JsonParse(file), raised |-> FALSE]

\* VectorStore.load(): readFile + JSON.parse inside try; the catch rethrows
\* every error but ENOENT, for which the store becomes empty. The result is
\* the new document list and whether load() raised.
VectorStoreLoad(docs, file) ==
  IF file.kind = "absent" THEN [documents |-> <<>>, raised |-> FALSE]
  ELSE IF file.kind = "garbage" THEN [documents |-> docs, raised |-> TRUE]
  ELSE [documents |-> JsonParse(file), raised |-> FALSE]

\* ----------------------------------------------------------------- indexer
\* The body of indexSession's inner loop once embed(text) has resolved.
IndexItem(docs, entry, genId) ==
  VectorStoreAdd(docs,
                 [id |-> NoId,
                  text |-> entry.item.text,
                  metadata |-> [url |-> entry.url,
                                topic |-> entry.item.topic,
                                knowledge_domain |-> entry.item.knowledge_domain],
                  embedding |-> EmbedVec(entry.item.text)],
                 genId)

\* indexSession(sessionId, vectorStore) from item k on. The Embedding Port
\* fails for the items in `fails`; `await embed(text)` is not inside a try,
\* so the first failure leaves the loops and the function. `ids` are the ids
\* add() generates. Result: the store's documents, whether the call raised,
\* the `indexed` counter and the number of embed calls made.
RECURSIVE IndexFrom(_, _, _, _, _, _)
IndexFrom(docs, items, k, fails, ids, indexed) ==
  IF k > Len(items)
  THEN [documents |-> docs, raised |-> FALSE, indexed |-> indexed, calls |-> Len(items)]
  ELSE IF k \in fails
  THEN [documents |-> docs, raised |-> TRUE, indexed |-> indexed, calls |-> k]
  ELSE IndexFrom(IndexItem(docs, items[k], ids[k]), items, k + 1, fails, ids, indexed + 1)

\* Its first statement reads data/scraped/<sessionId>.json and raises when
\* the file is missing.
indexSession(docs, s, fails, ids) ==
  IF ~HasScraped(s)
  THEN [documents |-> docs, raised |-> TRUE, indexed |-> 0, calls |-> 0]
  ELSE IndexFrom(docs, FlatItems(s), 1, fails, ids, 0)

\* ------------------------------------------------- prompt (generateAnswer)
\* Number of history entries generateAnswer keeps: conversationHistory.slice(-5).
HistoryLimit == 5

\* topK of the rag.query call in handleChat and handleVoiceQuestion.
ChatTopK == 5

\* `x || y` takes y when x is undefined, null or the empty string.
Falsy(x) == x \in {Undefined, ""}

DefaultSystemPrompt ==
  "You are a helpful assistant. Use the provided context to answer questions accurately."

FallbackSystemPrompt == "You are a helpful AI assistant."

\* A chat message {role, content}. The content of generateAnswer's final user
\* message is a template around the numbered context lines and the question:
\* it is kept as the question (text) and the lines (snippets); every other
\* message has no snippets.
Msg(role, text, snippets) == [role |-> role, text |-> text, snippets |-> snippets]

\* seq.slice(-n) for n > 0: the last n elements, all of them when there are
\* fewer.
SliceLast(seq, n) ==
  IF Len(seq) <= n THEN seq ELSE SubSeq(seq, Len(seq) - n + 1, Len(seq))

\* context: relevantDocs.map((doc, i) => `[${i + 1}] ${doc.text}`)
ContextLines(relevantDocs) ==
  [i \in 1..Len(relevantDocs) |-> [n |-> i, text |-> relevantDocs[i].text]]

\* The history entries as generateAnswer pushes them: {role, content} each.
HistoryMessages(history) ==
  [i \in 1..Len(history) |-> Msg(history[i].role, history[i].content, <<>>)]

\* The messages of generateAnswer's completion request, with the first
\* entries of the history instead of the last.
MessagesWithOldestHistory(question, relevantDocs, systemPrompt, conversationHistory) ==
  << Msg("system", IF Falsy(systemPrompt) THEN DefaultSystemPrompt ELSE systemPrompt, <<>>) >>
  \o HistoryMessages(SubSeq(conversationHistory, 1, Min(HistoryLimit, Len(conversationHistory))))
  \o << Msg("user", question, ContextLines(relevantDocs)) >>

\* The same with the caller's system prompt dropped.
MessagesWithDefaultPersona(question, relevantDocs, systemPrompt, conversationHistory) ==
  << Msg("system", DefaultSystemPrompt, <<>>) >>
  \o HistoryMessages(SliceLast(conversationHistory, HistoryLimit))
  \o << Msg("user", question, ContextLines(relevantDocs)) >>

\* The messages of generateAnswer's completion request.
GenerateAnswerMessages(question, relevantDocs, systemPrompt, conversationHistory) ==
  << Msg("system", IF Falsy(systemPrompt) THEN DefaultSystemPrompt ELSE systemPrompt, <<>>) >>
  \o HistoryMessages(SliceLast(conversationHistory, HistoryLimit))
  \o << Msg("user", question, ContextLines(relevantDocs)) >>

\* The options a caller passes to the query handle; handleChat passes topK
\* and conversationHistory and no systemPrompt.
Options(topK, systemPrompt, conversationHistory) ==
  [topK |-> topK, systemPrompt |-> systemPrompt,
   conversationHistory |-> conversationHistory]

ChatOptions(history) ==
  Options(ChatTopK, Undefined,
          [i \in 1..Len(history) |->
             [role |-> history[i].role, content |-> history[i].content]])

\* The options initRAG's query handle gives ragQuery: {...options,
\* systemPrompt: options.systemPrompt || sessionData.masterPrompt}.
QueryHandleOptions(options, masterPrompt) ==
  [options EXCEPT !.systemPrompt = IF Falsy(@) THEN masterPrompt ELSE @]

\* The `sources` of the response body: null, or the list rag.query returned.
NullSources == [null |-> TRUE, list |-> <<>>]
ListSources(list) == [null |-> FALSE, list |-> list]

\* The arguments of generateResponse(systemPrompt, history, message).
NoGenerateResponse == [systemPrompt |-> Undefined, history |-> <<>>, message |-> ""]

\* ------------------------------------------------------------------- state
VARIABLES
  disk,          \* data/vector-stores/<sessionId>.json, per store path
  documents,     \* VectorStore.documents, per handle
  storeSession,  \* the session whose path is the handle's storePath
  pc,            \* Spec: where each handleChat request stands
  cursor,        \* Spec: the item indexSession's loop is at, per request
  pending,       \* Spec: the data of a writeFile in progress, per request
  run,           \* Spec: what each request's indexing and query did so far
  ret,           \* SpecStore: what the caller's last call was and returned
  ops,           \* SpecStore: calls made so far
  embedCalls,    \* Embedding Port calls made for indexing, per session
  lastSaved,     \* per store path: the document list given to the last save()
  conversationSessions,  \* SpecState: AppState.conversationSessions, per key
  addedMessages, \* SpecState: every message added so far, per key
  scrapeLimit,   \* SpecScrape: options.limit of the scrape() call; 0: none yet
  sourcesAttempted,  \* SpecScrape: sources the scrape loop has gone through
  scrapedContent,    \* SpecScrape: scraped_content built so far
  mockStore,     \* SpecChat: USE_MOCK, the message store is the in-memory map
  conversations, \* SpecChat: the rows of the message store, per session
  savedBefore    \* SpecChat: the rows stored when the current request arrived

vars == <<disk, documents, storeSession, pc, cursor, pending, run,
          ret, ops, embedCalls, lastSaved, conversationSessions, addedMessages,
          scrapeLimit, sourcesAttempted, scrapedContent,
          mockStore, conversations, savedBefore>>

reqVars == <<pc, cursor, pending, run>>
apiVars == <<ret, ops>>
appVars == <<conversationSessions, addedMessages>>
ragVars == <<disk, documents, storeSession, embedCalls, lastSaved>>
scrapeVars == <<scrapeLimit, sourcesAttempted, scrapedContent>>
chatVars == <<mockStore, conversations, savedBefore>>

\* Conversation keys of AppState (a voice id each).
ConversationKeys == {"k1", "k2"}

\* A key conversationSessions has no entry for.
NoConversation ==
  [present |-> FALSE, recentMessages |-> <<>>, summary |-> "null", totalExchanges |-> 0]

NoRet ==
  [op |-> "none", raised |-> FALSE, results |-> <<>>, topK |-> 0,
   query |-> <<0, 0>>, fails |-> {}, indexed |-> 0, session |-> "s1"]

NeverSaved == [saved |-> FALSE, documents |-> <<>>]

InitialFiles == {Absent, Garbage}

NoWrite == [data |-> Absent, raced |-> FALSE]

NoRun ==
  [indexed |-> FALSE,       \* indexSession was entered
   indexRaised |-> FALSE,   \* indexSession raised
   initOutcome |-> "none",  \* of initRAG: none, returned, raised
   masterPrompt |-> Undefined,  \* sessionData.masterPrompt of the handle
   question |-> "ta",       \* the message of the request
   history |-> <<>>,        \* the rows getConversationHistory returned
   options |-> ChatOptions(<<>>),  \* the options given to rag.query
   questionEmbedCalls |-> 0,  \* Embedding Port calls made by ragQuery
   embedFailed |-> FALSE,   \* ragQuery's embed(question) failed
   relevantDocs |-> <<>>,   \* ragQuery's search result
   messages |-> <<>>,       \* the messages of generateAnswer's request
   genCalls |-> 0,          \* Generation Port calls made by generateAnswer
   outcome |-> "none",      \* of rag.query: none, returned, raised
   sources |-> <<>>,        \* the sources rag.query returned
   fallbackCalls |-> 0,     \* generateResponse calls made by the handler
   fallbackRequest |-> NoGenerateResponse,  \* what the last one was given
   fallbackOutcome |-> "none",  \* of generateResponse: none, returned, raised
   speechFailed |-> FALSE,  \* textToSpeech raised
   assistantSaved |-> FALSE,  \* saveMessage(sessionId, "assistant", ...) ran
   textResponse |-> "none", \* textResponse of the response body
   bodySources |-> NullSources,  \* sources of the response body
   response |-> "none"]     \* of the handler: none, rag, fallback, error500

\* A store path that does not depend on the session: every session on one
\* file.
GlobalStorePath(sessionId) == "s1"

\* storePathForSession(sessionId): data/vector-stores/<sessionId>.json. A
\* snapshot file is named by the session id in its path.
storePathForSession(sessionId) == sessionId

\* this.storePath of handle h, set by the constructor.
StorePath(h) == storePathForSession(storeSession[h])

\* No scrape() call is running.
InitScrapeIdle ==
  /\ scrapeLimit = 0
  /\ sourcesAttempted = 0
  /\ scrapedContent = <<>>

\* No chat request is in progress; the message store holds what
\* getConversationHistory returns to the handlers.
InitChatIdle ==
  /\ mockStore = FALSE
  /\ conversations = [s \in Sessions |-> StoredHistory(s)]
  /\ savedBefore = <<>>

InitCommon ==
  /\ storeSession = [h \in Reqs |-> "s1"]
  /\ pc = [r \in Reqs |-> "idle"]
  /\ cursor = [r \in Reqs |-> 1]
  /\ pending = [r \in Reqs |-> NoWrite]
  /\ run = [r \in Reqs |-> NoRun]
  /\ ret = NoRet
  /\ ops = 0
  /\ embedCalls = [s \in Sessions |-> 0]
  /\ lastSaved = [s \in Sessions |-> NeverSaved]
  /\ conversationSessions = [k \in ConversationKeys |-> NoConversation]
  /\ addedMessages = [k \in ConversationKeys |-> <<>>]
  /\ InitScrapeIdle
  /\ InitChatIdle

InitStore ==
  /\ disk \in {f \in [Sessions -> InitialFiles] :
                \A t \in Sessions : t # storePathForSession("s1") => f[t] = Absent}
  /\ documents = [h \in Reqs |-> <<>>]
  /\ InitCommon

\* Ids add() may generate for handle h now: any id of its pool no document
\* in memory or on disk carries.
FreeIds(h) ==
  GenPool(h) \ (DocIds(documents[h])
                \cup UNION {DocIds(disk[s].entries) : s \in Sessions})

\* No code path of the request pipeline reads or compares a document's id,
\* so Spec lets add() generate the first free id of the handle's pool; the
\* order of generated ids is left open where search is examined.
NextFreeId(h) ==
  CHOOSE g \in FreeIds(h) : \A o \in FreeIds(h) : o = g \/ IdLess(g, o)

\* The documents a caller passes to add(): with or without an id.
AddInputs ==
  {[id |-> i, text |-> t, metadata |-> EmptyMeta, embedding |-> EmbedVec(t)] :
     i \in {NoId} \cup ExplicitIds, t \in Texts}

\* ------------------------------------------------------ SpecStore actions
\* new VectorStore(storePathForSession(s)), a fresh store on the same path
ApiNew ==
  /\ ops < MaxOps
  /\ documents' = [documents EXCEPT ![ApiHandle] = <<>>]
  /\ UNCHANGED storeSession
  /\ ret' = [NoRet EXCEPT !.op = "new"]
  /\ ops' = ops + 1
  /\ UNCHANGED <<disk, embedCalls, lastSaved, reqVars, appVars, scrapeVars, chatVars>>

ApiAdd(doc) ==
  /\ ops < MaxOps
  /\ \E g \in IF doc.id = NoId THEN FreeIds(ApiHandle) ELSE {NoId} :
       documents' = [documents EXCEPT ![ApiHandle] = VectorStoreAdd(@, doc, g)]
  /\ ret' = [NoRet EXCEPT !.op = "add"]
  /\ ops' = ops + 1
  /\ UNCHANGED <<disk, storeSession, embedCalls, lastSaved, reqVars, appVars, scrapeVars, chatVars>>

ApiSearch(q, k) ==
  /\ ret' = [NoRet EXCEPT !.op = "search", !.query = q, !.topK = k,
                          !.results = VectorStoreSearch(documents[ApiHandle], q, k)]
  /\ documents' = [documents EXCEPT ![ApiHandle] = VectorStoreAfterSearch(@, q, k)]
  /\ UNCHANGED <<disk, storeSession, ops, embedCalls, lastSaved, reqVars, appVars, scrapeVars, chatVars>>

\* await save(): mkdir, then writeFile(storePath, JSON.stringify(documents))
ApiSave ==
  /\ ops < MaxOps
  /\ disk' = [disk EXCEPT ![StorePath(ApiHandle)] = JsonStringify(documents[ApiHandle])]
  /\ lastSaved' = [lastSaved EXCEPT ![StorePath(ApiHandle)] =
                     [saved |-> TRUE, documents |-> documents[ApiHandle]]]
  /\ ret' = [NoRet EXCEPT !.op = "save"]
  /\ ops' = ops + 1
  /\ UNCHANGED <<documents, storeSession, embedCalls, reqVars, appVars, scrapeVars, chatVars>>

ApiLoad ==
  /\ ops < MaxOps
  /\ LET r == VectorStoreLoad(documents[ApiHandle], disk[StorePath(ApiHandle)])
     IN /\ documents' = [documents EXCEPT ![ApiHandle] = r.documents]
        /\ ret' = [NoRet EXCEPT !.op = "load", !.raised = r.raised]
  /\ ops' = ops + 1
  /\ UNCHANGED <<disk, storeSession, embedCalls, lastSaved, reqVars, appVars, scrapeVars, chatVars>>

\* A clear() that also writes the emptied list to the store path.
ApiClearAutosaving ==
  /\ ops < MaxOps
  /\ documents' = [documents EXCEPT ![ApiHandle] = <<>>]
  /\ disk' = [disk EXCEPT ![StorePath(ApiHandle)] = JsonStringify(<<>>)]
  /\ ret' = [NoRet EXCEPT !.op = "clear"]
  /\ ops' = ops + 1
  /\ UNCHANGED <<storeSession, embedCalls, lastSaved, reqVars, appVars, scrapeVars, chatVars>>

\* clear(): this.documents = []
ApiClear ==
  /\ ops < MaxOps
  /\ documents' = [documents EXCEPT ![ApiHandle] = <<>>]
  /\ ret' = [NoRet EXCEPT !.op = "clear"]
  /\ ops' = ops + 1
  /\ UNCHANGED <<disk, storeSession, embedCalls, lastSaved, reqVars, appVars, scrapeVars, chatVars>>

\* Injective choices of generated ids for n items.
IdChoices(free, n) ==
  {f \in [1..n -> free] : \A i, j \in 1..n : i # j => f[i] # f[j]}

\* await indexSession(s, vectorStore), called directly by the caller.
ApiIndexSession(s, fails) ==
  /\ ops < MaxOps
  /\ \E ids \in IdChoices(FreeIds(ApiHandle), Len(FlatItems(s))) :
       LET r == indexSession(documents[ApiHandle], s, fails, ids)
       IN /\ documents' = [documents EXCEPT ![ApiHandle] = r.documents]
          /\ embedCalls' = [embedCalls EXCEPT ![s] = @ + r.calls]
          /\ ret' = [NoRet EXCEPT !.op = "indexSession", !.raised = r.raised,
                                  !.indexed = r.indexed, !.fails = fails,
                                  !.session = s]
  /\ ops' = ops + 1
  /\ UNCHANGED <<disk, storeSession, lastSaved, reqVars, appVars, scrapeVars, chatVars>>

Queries == {EmbedVec(q) : q \in Questions}

NextStore ==
  \/ ApiNew
  \/ \E doc \in AddInputs : ApiAdd(doc)
  \/ ApiSave
  \/ ApiLoad
  \/ ApiClear
  \/ \E fails \in SUBSET (1..Len(FlatItems("s2"))) : ApiIndexSession("s2", fails)

SpecStore == InitStore /\ [][NextStore]_vars

\* ----------------------------------------------------------- SpecSearch
\* search() is a pure function of the store and its arguments: the store
\* starts as any document list add() can build, and search is applied.
SearchIds == ExplicitIds \cup GenPool(ApiHandle)

DocChoices ==
  {[id |-> i, text |-> t, metadata |-> EmptyMeta, embedding |-> EmbedVec(t)] :
     i \in SearchIds, t \in Texts}

\* add() generates no id twice; an id the caller passes may repeat.
GeneratedIdsDistinct(docs) ==
  \A i, j \in 1..Len(docs) :
    i # j /\ docs[i].id = docs[j].id => docs[i].id \in ExplicitIds

StoreContents ==
  UNION {{d \in [1..n -> DocChoices] : GeneratedIdsDistinct(d)} : n \in 0..MaxDocs}

InitSearch ==
  /\ disk = [s \in Sessions |-> Absent]
  /\ documents \in {[h \in Reqs |-> IF h = ApiHandle THEN d ELSE <<>>] : d \in StoreContents}
  /\ InitCommon

\* topK is any integer a caller passes: positive, zero or negative.
NextSearch == \E q \in Queries, k \in (-1)..MaxTopK : ApiSearch(q, k)

SpecSearch == InitSearch /\ [][NextSearch]_vars

\* ------------------------------------------------------ query path (query.js)
\* Sources that leave out the last document used.
SourcesWithoutLast(relevantDocs) ==
  [i \in 1..(Len(relevantDocs) - 1) |->
     [text |-> relevantDocs[i].text, metadata |-> relevantDocs[i].metadata,
      score |-> relevantDocs[i].score]]

\* ragQuery's return value: sources = relevantDocs.map(doc => ({text,
\* metadata, score})).
SourcesOf(relevantDocs) ==
  [i \in 1..Len(relevantDocs) |->
     [text |-> relevantDocs[i].text, metadata |-> relevantDocs[i].metadata,
      score |-> relevantDocs[i].score]]

\* ragQuery after `await embed(question)` has settled. A rejected embed
\* leaves ragQuery at once: no search, no generateAnswer.
RagAfterEmbedIgnoresFailure(rn, docs, ok) ==
  LET o == QueryHandleOptions(rn.options, rn.masterPrompt)
      relevantDocs == IF ok THEN VectorStoreSearch(docs, EmbedVec(rn.question), o.topK)
                      ELSE <<>>
  IN [rn EXCEPT !.questionEmbedCalls = @ + 1,
                !.embedFailed = ~ok,
                !.relevantDocs = relevantDocs,
                !.messages = GenerateAnswerMessages(rn.question, relevantDocs,
                                                    o.systemPrompt, o.conversationHistory)]

\* A generateAnswer that takes the recent entries out of the caller's array
\* with conversationHistory.splice(-5) instead of copying them with slice.
RagAfterEmbedSplicingHistory(rn, docs, ok) ==
  IF ok
  THEN LET o == QueryHandleOptions(rn.options, rn.masterPrompt)
           relevantDocs == VectorStoreSearch(docs, EmbedVec(rn.question), o.topK)
           h == rn.options.conversationHistory
       IN [rn EXCEPT !.questionEmbedCalls = @ + 1,
                     !.relevantDocs = relevantDocs,
                     !.messages = GenerateAnswerMessages(rn.question, relevantDocs,
                                                         o.systemPrompt,
                                                         o.conversationHistory),
                     !.options.conversationHistory =
                        SubSeq(h, 1, Max(Len(h) - HistoryLimit, 0))]
  ELSE [rn EXCEPT !.questionEmbedCalls = @ + 1,
                  !.embedFailed = TRUE, !.outcome = "raised"]

\* On success search runs with the handle's options and generateAnswer
\* builds its request from the result.
RagAfterEmbed(rn, docs, ok) ==
  IF ok
  THEN LET o == QueryHandleOptions(rn.options, rn.masterPrompt)
           relevantDocs == VectorStoreSearch(docs, EmbedVec(rn.question), o.topK)
       IN [rn EXCEPT !.questionEmbedCalls = @ + 1,
                     !.relevantDocs = relevantDocs,
                     !.messages = GenerateAnswerMessages(rn.question, relevantDocs,
                                                         o.systemPrompt,
                                                         o.conversationHistory)]
  ELSE [rn EXCEPT !.questionEmbedCalls = @ + 1,
                  !.embedFailed = TRUE, !.outcome = "raised"]

\* A generateAnswer that calls the completion once more when it failed.
RagAfterGenerateRetrying(rn, ok) ==
  IF ok
  THEN [rn EXCEPT !.genCalls = @ + 1, !.outcome = "returned",
                  !.sources = SourcesOf(rn.relevantDocs)]
  ELSE [rn EXCEPT !.genCalls = @ + 2, !.outcome = "raised"]

\* ragQuery after generateAnswer's openai.chat.completions.create settled.
RagAfterGenerate(rn, ok) ==
  IF ok
  THEN [rn EXCEPT !.genCalls = @ + 1, !.outcome = "returned",
                  !.sources = SourcesOf(rn.relevantDocs)]
  ELSE [rn EXCEPT !.genCalls = @ + 1, !.outcome = "raised"]

\* The handler after its catch called generateResponse(systemPrompt,
\* history, message) with systemPrompt = profile.master_prompt || the
\* default, and the call settled. Here a failed call is made once more.
AfterGenerateResponseRetrying(rn, s, ok) ==
  LET request == [systemPrompt |-> IF Falsy(ProfileMasterPrompt(s))
                                   THEN FallbackSystemPrompt
                                   ELSE ProfileMasterPrompt(s),
                  history |-> rn.history,
                  message |-> rn.question]
  IN [rn EXCEPT !.fallbackCalls = IF ok THEN @ + 1 ELSE @ + 2,
                !.fallbackRequest = request,
                !.fallbackOutcome = IF ok THEN "returned" ELSE "raised"]

AfterGenerateResponse(rn, s, ok) ==
  LET request == [systemPrompt |-> IF Falsy(ProfileMasterPrompt(s))
                                   THEN FallbackSystemPrompt
                                   ELSE ProfileMasterPrompt(s),
                  history |-> rn.history,
                  message |-> rn.question]
  IN [rn EXCEPT !.fallbackCalls = @ + 1,
                !.fallbackRequest = request,
                !.fallbackOutcome = IF ok THEN "returned" ELSE "raised"]

\* The end of the handler once textResponse and sources are set: `await
\* textToSpeech`, `await saveMessage(sessionId, "assistant", ...)` and
\* res.json({textResponse, audioUrl, sources}); if textToSpeech raises, the
\* outer catch answers 500 and nothing is saved.
HandlerTail(rn, kind, textResponse, sources, speechOk) ==
  IF speechOk
  THEN [rn EXCEPT !.assistantSaved = TRUE, !.textResponse = textResponse,
                  !.bodySources = sources, !.response = kind]
  ELSE [rn EXCEPT !.speechFailed = TRUE, !.response = "error500"]

\* ------------------------------------------------------- Spec: handleChat
\* handleChat(sessionId = s, message = q) up to initRAG's
\* `await vectorStore.load()`: a new VectorStore on the session's path.
\* Requests are numbered in the order they arrive.
Start(r, s, q) ==
  /\ pc[r] = "idle"
  /\ \A o \in Reqs : o < r => pc[o] # "idle"
  /\ pc' = [pc EXCEPT ![r] = "load"]
  /\ storeSession' = [storeSession EXCEPT ![r] = s]
  /\ documents' = [documents EXCEPT ![r] = <<>>]
  /\ run' = [run EXCEPT ![r].question = q,
                        ![r].history = StoredHistory(s),
                        ![r].options = ChatOptions(StoredHistory(s))]
  /\ UNCHANGED <<disk, cursor, pending, embedCalls, lastSaved, apiVars, appVars, scrapeVars, chatVars>>

\* initRAG after `await vectorStore.load()` settled with l, for session s:
\* where the request goes next, whether indexSession is entered, and whether
\* initRAG has returned or raised by then. Here a missing scraped file reads
\* as a session without content.
InitRagAfterLoadMissingAsEmpty(l, s) ==
  IF l.raised
  THEN [pc |-> "fallback", indexed |-> FALSE, indexRaised |-> FALSE, initOutcome |-> "raised"]
  ELSE IF Len(l.documents) > 0
  THEN [pc |-> "embedQuestion", indexed |-> FALSE, indexRaised |-> FALSE, initOutcome |-> "returned"]
  ELSE IF Len(FlatItems(s)) = 0
  THEN [pc |-> "save", indexed |-> TRUE, indexRaised |-> FALSE, initOutcome |-> "none"]
  ELSE [pc |-> "index", indexed |-> TRUE, indexRaised |-> FALSE, initOutcome |-> "none"]

\* If load() raised, initRAG raises. If the store is empty, indexSession
\* starts: its readFile of the scraped file raises when the file is missing,
\* else comes its first embed call or, with no items, save(). If the store
\* is not empty, initRAG reads the scraped file for the master prompt (which
\* raises when the file is missing) and returns.
InitRagAfterLoad(l, s) ==
  IF l.raised
  THEN [pc |-> "fallback", indexed |-> FALSE, indexRaised |-> FALSE, initOutcome |-> "raised"]
  ELSE IF Len(l.documents) > 0
  THEN IF HasScraped(s)
       THEN [pc |-> "embedQuestion", indexed |-> FALSE, indexRaised |-> FALSE,
             initOutcome |-> "returned"]
       ELSE [pc |-> "fallback", indexed |-> FALSE, indexRaised |-> FALSE,
             initOutcome |-> "raised"]
  ELSE IF ~HasScraped(s)
  THEN [pc |-> "fallback", indexed |-> TRUE, indexRaised |-> TRUE, initOutcome |-> "raised"]
  ELSE IF Len(FlatItems(s)) = 0
  THEN [pc |-> "save", indexed |-> TRUE, indexRaised |-> FALSE, initOutcome |-> "none"]
  ELSE [pc |-> "index", indexed |-> TRUE, indexRaised |-> FALSE, initOutcome |-> "none"]

\* load() settles and initRAG goes on. If initRAG raises, handleChat's catch
\* takes over; when it returns, rag.query calls embed(question).
Load(r) ==
  /\ pc[r] = "load"
  /\ LET l == VectorStoreLoad(documents[r], disk[StorePath(r)])
         n == InitRagAfterLoad(l, storeSession[r])
     IN /\ documents' = [documents EXCEPT ![r] = l.documents]
        /\ pc' = [pc EXCEPT ![r] = n.pc]
        /\ run' = [run EXCEPT ![r].indexed = n.indexed,
                              ![r].indexRaised = n.indexRaised,
                              ![r].initOutcome = n.initOutcome,
                              ![r].masterPrompt =
                                 IF n.initOutcome = "returned"
                                 THEN MasterPrompt(storeSession[r]) ELSE @]
  /\ UNCHANGED <<disk, storeSession, cursor, pending, embedCalls, lastSaved, apiVars, appVars, scrapeVars, chatVars>>

\* One `await embed(text)` of indexSession settles, with or without error.
EmbedItem(r, ok) ==
  /\ pc[r] = "index"
  /\ LET s == storeSession[r]
         items == FlatItems(s)
     IN /\ embedCalls' = [embedCalls EXCEPT ![s] = @ + 1]
        /\ IF ok
           THEN /\ documents' = [documents EXCEPT ![r] =
                                   IndexItem(@, items[cursor[r]], NextFreeId(r))]
                /\ cursor' = [cursor EXCEPT ![r] = @ + 1]
                /\ pc' = [pc EXCEPT ![r] = IF cursor[r] = Len(items) THEN "save" ELSE "index"]
                /\ UNCHANGED run
           ELSE /\ run' = [run EXCEPT ![r].indexRaised = TRUE,
                                      ![r].initOutcome = "raised"]
                /\ pc' = [pc EXCEPT ![r] = "fallback"]
                /\ UNCHANGED <<documents, cursor>>
  /\ UNCHANGED <<disk, storeSession, pending, lastSaved, apiVars, appVars, scrapeVars, chatVars>>

\* save() after its mkdir: JSON.stringify(this.documents) is taken and
\* writeFile starts. Two writeFile calls on one path that overlap race.
SaveWrite(r) ==
  /\ pc[r] = "save"
  /\ LET others == {o \in Reqs \ {r} : pc[o] = "writing" /\ StorePath(o) = StorePath(r)}
     IN pending' = [o \in Reqs |->
                      IF o = r THEN [data |-> JsonStringify(documents[r]), raced |-> others # {}]
                      ELSE IF o \in others THEN [pending[o] EXCEPT !.raced = TRUE]
                      ELSE pending[o]]
  /\ pc' = [pc EXCEPT ![r] = "writing"]
  /\ lastSaved' = [lastSaved EXCEPT ![StorePath(r)] =
                     [saved |-> TRUE, documents |-> documents[r]]]
  /\ UNCHANGED <<disk, documents, storeSession, cursor, run, embedCalls, apiVars, appVars, scrapeVars, chatVars>>

\* writeFile settles: the file holds the data, or, after a race with another
\* writeFile, possibly a mix of both that no longer parses. initRAG reads the
\* scraped file for the master prompt and returns; rag.query calls
\* embed(question).
WriteDone(r) ==
  /\ pc[r] = "writing"
  /\ \E f \in IF pending[r].raced THEN {pending[r].data, Garbage} ELSE {pending[r].data} :
       disk' = [disk EXCEPT ![StorePath(r)] = f]
  /\ pending' = [pending EXCEPT ![r] = NoWrite]
  /\ pc' = [pc EXCEPT ![r] = "embedQuestion"]
  /\ run' = [run EXCEPT ![r].initOutcome = "returned",
                        ![r].masterPrompt = MasterPrompt(storeSession[r])]
  /\ UNCHANGED <<documents, storeSession, cursor, embedCalls, lastSaved, apiVars, appVars, scrapeVars, chatVars>>

\* ragQuery: `await embed(question)` settles; on success search runs and
\* generateAnswer calls the Generation Port.
EmbedQuestion(r, ok) ==
  /\ pc[r] = "embedQuestion"
  /\ run' = [run EXCEPT ![r] = RagAfterEmbed(@, documents[r], ok)]
  /\ pc' = [pc EXCEPT ![r] = IF run'[r].outcome = "raised" THEN "fallback" ELSE "generate"]
  /\ UNCHANGED <<disk, documents, storeSession, cursor, pending, embedCalls, lastSaved, apiVars, appVars, scrapeVars, chatVars>>

\* generateAnswer's completion settles; ragQuery returns or raises. When it
\* returns, the handler takes result.answer and result.sources and ends.
Generate(r, ok, speechOk) ==
  /\ pc[r] = "generate"
  /\ LET rn == RagAfterGenerate(run[r], ok)
     IN run' = [run EXCEPT ![r] =
                  IF ok
                  THEN HandlerTail(rn, "rag", "ragAnswer", ListSources(rn.sources), speechOk)
                  ELSE rn]
  /\ pc' = [pc EXCEPT ![r] = IF ok THEN "done" ELSE "fallback"]
  /\ UNCHANGED <<disk, documents, storeSession, cursor, pending, embedCalls, lastSaved, apiVars, appVars, scrapeVars, chatVars>>

\* The handler's catch (ragError): generateResponse(systemPrompt, history,
\* message); if that raises too, the outer catch answers 500. `sources` is
\* still null.
Fallback(r, ok, speechOk) ==
  /\ pc[r] = "fallback"
  /\ LET rn == AfterGenerateResponse(run[r], storeSession[r], ok)
     IN run' = [run EXCEPT ![r] =
                  IF ok
                  THEN HandlerTail(rn, "fallback", "fallbackAnswer", NullSources, speechOk)
                  ELSE [rn EXCEPT !.response = "error500"]]
  /\ pc' = [pc EXCEPT ![r] = "done"]
  /\ UNCHANGED <<disk, documents, storeSession, cursor, pending, embedCalls, lastSaved, apiVars, appVars, scrapeVars, chatVars>>

\* The snapshot of "s1" is missing or does not parse; the other sessions
\* have none yet.
Init ==
  /\ disk \in {f \in [Sessions -> InitialFiles] :
                \A t \in Sessions : t # storePathForSession("s1") => f[t] = Absent}
  /\ documents = [h \in Reqs |-> <<>>]
  /\ InitCommon

\* The sessions concurrent requests are made for: the ones with content and
\* the one never scraped.
BusySessions == {s \in Sessions : ~HasScraped(s) \/ Len(FlatItems(s)) > 0}

Next ==
  \/ \E r \in Reqs, s \in BusySessions, q \in ChatQuestions : Start(r, s, q)
  \/ \E r \in Reqs : Load(r)
  \/ \E r \in Reqs, ok \in BOOLEAN : EmbedItem(r, ok)
  \/ \E r \in Reqs : SaveWrite(r)
  \/ \E r \in Reqs : WriteDone(r)
  \/ \E r \in Reqs, ok \in BOOLEAN : EmbedQuestion(r, ok)
  \/ \E r \in Reqs, ok \in BOOLEAN, speechOk \in BOOLEAN : Generate(r, ok, speechOk)
  \/ \E r \in Reqs, ok \in BOOLEAN, speechOk \in BOOLEAN : Fallback(r, ok, speechOk)

Spec == Init /\ [][Next]_vars

\* --------------------------------------------------------------- SpecSeq
\* The same requests made one after the other: a request arrives when every
\* earlier one has been answered.
StartSeq(r, s, q) ==
  /\ \A o \in Reqs : pc[o] \in {"idle", "done"}
  /\ Start(r, s, q)

NextSeq ==
  \/ \E r \in Reqs, s \in Sessions, q \in ChatQuestions : StartSeq(r, s, q)
  \/ \E r \in Reqs : Load(r)
  \/ \E r \in Reqs, ok \in BOOLEAN : EmbedItem(r, ok)
  \/ \E r \in Reqs : SaveWrite(r)
  \/ \E r \in Reqs : WriteDone(r)
  \/ \E r \in Reqs, ok \in BOOLEAN : EmbedQuestion(r, ok)
  \/ \E r \in Reqs, ok \in BOOLEAN, speechOk \in BOOLEAN : Generate(r, ok, speechOk)
  \/ \E r \in Reqs, ok \in BOOLEAN, speechOk \in BOOLEAN : Fallback(r, ok, speechOk)

SpecSeq == Init /\ [][NextSeq]_vars

\* ------------------------------------------------------------ SpecPrompt
\* One caller asks the query handle of initRAG(s) one question with options
\* of its own: rag.query(question, {topK, systemPrompt, conversationHistory}).
HistoryEntries ==
  {[role |-> "user", content |-> "hi"], [role |-> "assistant", content |-> "hello"]}

Histories == UNION {[1..n -> HistoryEntries] : n \in 0..MaxHistory}

SystemPrompts == {Undefined, "", "custom"}

\* The store initRAG(s) builds for a scraped session when nothing fails.
IndexedStore(s) ==
  indexSession(<<>>, s, {}, [i \in 1..Len(FlatItems(s)) |-> <<ApiHandle, i>>]).documents

InitPrompt ==
  /\ \E s \in {t \in Sessions : HasScraped(t)} :
       /\ storeSession = [h \in Reqs |-> IF h = ApiHandle THEN s ELSE "s1"]
       /\ documents = [h \in Reqs |-> IF h = ApiHandle THEN IndexedStore(s) ELSE <<>>]
       /\ \E q \in Questions, k \in 1..MaxTopK, sp \in SystemPrompts, h \in Histories :
            run = [r \in Reqs |->
                     IF r = ApiHandle
                     THEN [NoRun EXCEPT !.initOutcome = "returned",
                                        !.masterPrompt = MasterPrompt(s),
                                        !.question = q,
                                        !.options = Options(k, sp, h)]
                     ELSE NoRun]
  /\ pc = [r \in Reqs |-> IF r = ApiHandle THEN "embedQuestion" ELSE "idle"]
  /\ disk = [s \in Sessions |-> Absent]
  /\ cursor = [r \in Reqs |-> 1]
  /\ pending = [r \in Reqs |-> NoWrite]
  /\ ret = NoRet
  /\ ops = 0
  /\ embedCalls = [s \in Sessions |-> 0]
  /\ lastSaved = [s \in Sessions |-> NeverSaved]
  /\ conversationSessions = [k \in ConversationKeys |-> NoConversation]
  /\ addedMessages = [k \in ConversationKeys |-> <<>>]
  /\ InitScrapeIdle
  /\ InitChatIdle

\* ragQuery: `await embed(question)` settles.
QueryEmbed(ok) ==
  /\ pc[ApiHandle] = "embedQuestion"
  /\ run' = [run EXCEPT ![ApiHandle] = RagAfterEmbed(@, documents[ApiHandle], ok)]
  /\ documents' =
       [documents EXCEPT ![ApiHandle] =
          IF ok
          THEN VectorStoreAfterSearch(@, EmbedVec(run[ApiHandle].question),
                                      run[ApiHandle].options.topK)
          ELSE @]
  /\ pc' = [pc EXCEPT ![ApiHandle] = IF ok THEN "generate" ELSE "done"]
  /\ UNCHANGED <<disk, storeSession, embedCalls, lastSaved, cursor, pending,
                 apiVars, appVars, scrapeVars, chatVars>>

\* ragQuery: generateAnswer's completion settles and rag.query ends.
QueryGenerate(ok) ==
  /\ pc[ApiHandle] = "generate"
  /\ run' = [run EXCEPT ![ApiHandle] = RagAfterGenerate(@, ok)]
  /\ pc' = [pc EXCEPT ![ApiHandle] = "done"]
  /\ UNCHANGED <<ragVars, cursor, pending, apiVars, appVars, scrapeVars, chatVars>>

\* The caller asks the same handle another question: rag.query(q, {...,
\* topK: k}) with the system prompt and history it passed before.
QueryAgain(q, k) ==
  /\ pc[ApiHandle] = "done"
  /\ ops + 1 < MaxQueries
  /\ ops' = ops + 1
  /\ run' = [run EXCEPT ![ApiHandle] =
               [NoRun EXCEPT !.initOutcome = "returned",
                             !.masterPrompt = run[ApiHandle].masterPrompt,
                             !.question = q,
                             !.options = [run[ApiHandle].options EXCEPT !.topK = k]]]
  /\ pc' = [pc EXCEPT ![ApiHandle] = "embedQuestion"]
  /\ UNCHANGED <<ragVars, cursor, pending, ret, appVars, scrapeVars, chatVars>>

NextPrompt ==
  \/ \E ok \in BOOLEAN : QueryEmbed(ok)
  \/ \E ok \in BOOLEAN : QueryGenerate(ok)
  \/ \E q \in Questions, k \in 1..MaxTopK : QueryAgain(q, k)

SpecPrompt == InitPrompt /\ [][NextPrompt]_vars

\* ------------------------------------------------- SpecState (AppState)
\* Number of recentMessages addToConversationHistory keeps.
RecentWindow == 6

UserMessages == {"u1", "u2"}
AiResponses == {"a1"}

\* getConversationHistory(key): the entry of the key, made first if missing.
ConversationOf(sessions, key) ==
  IF sessions[key].present THEN sessions[key]
  ELSE [NoConversation EXCEPT !.present = TRUE]

\* The same, keeping the first messages when the list is over the window.
AddKeepingOldest(sessions, key, userMessage, aiResponse) ==
  LET session == ConversationOf(sessions, key)
      pushed == session.recentMessages
                \o << [role |-> "user", content |-> userMessage],
                      [role |-> "assistant", content |-> aiResponse] >>
  IN [sessions EXCEPT ![key] =
        [session EXCEPT !.recentMessages =
                           IF Len(pushed) > RecentWindow
                           THEN SubSeq(pushed, 1, RecentWindow) ELSE pushed,
                        !.totalExchanges = @ + 1]]

\* addToConversationHistory(key, userMessage, aiResponse): push both
\* messages, count the exchange, keep recentMessages.slice(-6) when the list
\* is longer than six.
AddToConversationHistory(sessions, key, userMessage, aiResponse) ==
  LET session == ConversationOf(sessions, key)
      pushed == session.recentMessages
                \o << [role |-> "user", content |-> userMessage],
                      [role |-> "assistant", content |-> aiResponse] >>
  IN [sessions EXCEPT ![key] =
        [session EXCEPT !.recentMessages =
                           IF Len(pushed) > RecentWindow
                           THEN SliceLast(pushed, RecentWindow) ELSE pushed,
                        !.totalExchanges = @ + 1]]

TotalAdded == Len(addedMessages["k1"]) + Len(addedMessages["k2"])

GetConversationHistory(key) ==
  /\ ~conversationSessions[key].present
  /\ conversationSessions' =
       [conversationSessions EXCEPT ![key] = ConversationOf(conversationSessions, key)]
  /\ UNCHANGED <<addedMessages, ragVars, reqVars, apiVars, scrapeVars, chatVars>>

AddExchange(key, userMessage, aiResponse) ==
  /\ TotalAdded < 2 * MaxExchanges
  /\ conversationSessions' =
       AddToConversationHistory(conversationSessions, key, userMessage, aiResponse)
  /\ addedMessages' =
       [addedMessages EXCEPT ![key] =
          @ \o << [role |-> "user", content |-> userMessage],
                  [role |-> "assistant", content |-> aiResponse] >>]
  /\ UNCHANGED <<ragVars, reqVars, apiVars, scrapeVars, chatVars>>

InitState ==
  /\ disk = [s \in Sessions |-> Absent]
  /\ documents = [h \in Reqs |-> <<>>]
  /\ InitCommon

NextState ==
  \/ \E key \in ConversationKeys : GetConversationHistory(key)
  \/ \E key \in ConversationKeys, u \in UserMessages, a \in AiResponses :
       AddExchange(key, u, a)

SpecState == InitState /\ [][NextState]_vars

\* ------------------------------------------- SpecChat: the message store
\* handleChat requests that come one after the other, with the rows of the
\* message store. The store is Supabase, where getConversationHistory
\* returns the rows it fetched, or the in-memory mock, where it returns the
\* array of the session itself, the one saveMessage pushes to.
ChatSessions == {s \in Sessions : Len(FlatItems(s)) > 0}

\* The row saveMessage(sessionId, role, content, audioUrl) stores.
MessageRow(role, content, audioUrl) ==
  [role |-> role, content |-> content, audio_url |-> audioUrl]

\* handleChat(sessionId = s, message = q): getProfile, then
\* `history = await getConversationHistory(sessionId)`.
ChatStart(s, q) ==
  /\ pc[ApiHandle] \in {"idle", "done"}
  /\ ops < MaxChats
  /\ ops' = ops + 1
  /\ pc' = [pc EXCEPT ![ApiHandle] = "saveUser"]
  /\ storeSession' = [storeSession EXCEPT ![ApiHandle] = s]
  /\ documents' = [documents EXCEPT ![ApiHandle] = <<>>]
  /\ run' = [run EXCEPT ![ApiHandle] =
               [NoRun EXCEPT !.question = q, !.history = conversations[s]]]
  /\ savedBefore' = conversations[s]
  /\ UNCHANGED <<disk, cursor, pending, ret, embedCalls, lastSaved, appVars,
                 scrapeVars, mockStore, conversations>>

\* `await saveMessage(sessionId, "user", message)`. The mock pushes to the
\* array `history` refers to; Supabase inserts a row and the fetched rows
\* stay as they are.
ChatSaveUser ==
  /\ pc[ApiHandle] = "saveUser"
  /\ LET s == storeSession[ApiHandle]
         rows == Append(conversations[s],
                        MessageRow("user", run[ApiHandle].question, Undefined))
     IN /\ conversations' = [conversations EXCEPT ![s] = rows]
        /\ run' = [run EXCEPT ![ApiHandle].history = IF mockStore THEN rows ELSE @]
  /\ pc' = [pc EXCEPT ![ApiHandle] = "load"]
  /\ UNCHANGED <<ragVars, cursor, pending, apiVars, appVars, scrapeVars,
                 mockStore, savedBefore>>

\* initRAG returned: conversationHistory = history.map(...), rag.query is
\* called with it and ragQuery's `await embed(question)` settles.
ChatEmbedQuestion(ok) ==
  /\ pc[ApiHandle] = "embedQuestion"
  /\ LET rn == run[ApiHandle]
     IN run' = [run EXCEPT ![ApiHandle] =
                  RagAfterEmbed([rn EXCEPT !.options = ChatOptions(rn.history)],
                                documents[ApiHandle], ok)]
  /\ pc' = [pc EXCEPT ![ApiHandle] = IF ok THEN "generate" ELSE "fallback"]
  /\ UNCHANGED <<ragVars, cursor, pending, apiVars, appVars, scrapeVars, chatVars>>

\* The rows after the handler's end: `await saveMessage(sessionId,
\* "assistant", textResponse, audioUrl)` runs unless the request ended as 500.
RowsAfterHandler(rows, rn) ==
  IF rn.assistantSaved
  THEN Append(rows, MessageRow("assistant", rn.textResponse, "a1"))
  ELSE rows

\* generateAnswer's completion settles and, when rag.query returned, the
\* handler ends.
ChatGenerate(ok, speechOk) ==
  /\ pc[ApiHandle] = "generate"
  /\ LET rn == RagAfterGenerate(run[ApiHandle], ok)
         end == IF ok
                THEN HandlerTail(rn, "rag", "ragAnswer", ListSources(rn.sources), speechOk)
                ELSE rn
         s == storeSession[ApiHandle]
     IN /\ run' = [run EXCEPT ![ApiHandle] = end]
        /\ conversations' = [conversations EXCEPT ![s] = RowsAfterHandler(@, end)]
  /\ pc' = [pc EXCEPT ![ApiHandle] = IF ok THEN "done" ELSE "fallback"]
  /\ UNCHANGED <<ragVars, cursor, pending, apiVars, appVars, scrapeVars,
                 mockStore, savedBefore>>

\* The handler's catch: generateResponse(systemPrompt, history, message),
\* then the handler ends.
ChatFallback(ok, speechOk) ==
  /\ pc[ApiHandle] = "fallback"
  /\ LET rn == AfterGenerateResponse(run[ApiHandle], storeSession[ApiHandle], ok)
         end == IF ok
                THEN HandlerTail(rn, "fallback", "fallbackAnswer", NullSources, speechOk)
                ELSE [rn EXCEPT !.response = "error500"]
         s == storeSession[ApiHandle]
     IN /\ run' = [run EXCEPT ![ApiHandle] = end]
        /\ conversations' = [conversations EXCEPT ![s] = RowsAfterHandler(@, end)]
  /\ pc' = [pc EXCEPT ![ApiHandle] = "done"]
  /\ UNCHANGED <<ragVars, cursor, pending, apiVars, appVars, scrapeVars,
                 mockStore, savedBefore>>

\* The sessions were indexed earlier: each has its snapshot. The message
\* store is the mock or Supabase.
InitChat ==
  /\ mockStore \in BOOLEAN
  /\ conversations = [s \in Sessions |-> StoredHistory(s)]
  /\ savedBefore = <<>>
  /\ disk = [s \in Sessions |->
               IF s \in ChatSessions THEN JsonStringify(IndexedStore(s)) ELSE Absent]
  /\ lastSaved = [s \in Sessions |->
                    IF s \in ChatSessions
                    THEN [saved |-> TRUE, documents |-> IndexedStore(s)]
                    ELSE NeverSaved]
  /\ documents = [h \in Reqs |-> <<>>]
  /\ storeSession = [h \in Reqs |-> "s1"]
  /\ pc = [r \in Reqs |-> "idle"]
  /\ cursor = [r \in Reqs |-> 1]
  /\ pending = [r \in Reqs |-> NoWrite]
  /\ run = [r \in Reqs |-> NoRun]
  /\ ret = NoRet
  /\ ops = 0
  /\ embedCalls = [s \in Sessions |-> 0]
  /\ conversationSessions = [k \in ConversationKeys |-> NoConversation]
  /\ addedMessages = [k \in ConversationKeys |-> <<>>]
  /\ InitScrapeIdle

NextChat ==
  \/ \E s \in ChatSessions, q \in Questions : ChatStart(s, q)
  \/ ChatSaveUser
  \/ Load(ApiHandle)
  \/ \E ok \in BOOLEAN : ChatEmbedQuestion(ok)
  \/ \E ok, speechOk \in BOOLEAN : ChatGenerate(ok, speechOk)
  \/ \E ok, speechOk \in BOOLEAN : ChatFallback(ok, speechOk)

SpecChat == InitChat /\ [][NextChat]_vars

\* ------------------------------------------------------------ SpecIndex
\* A caller that indexes sessions into its store and empties the store in
\* between: indexSession for every session, with any embedding failing.
NextIndex ==
  \/ ApiClear
  \/ \E s \in Sessions, fails \in SUBSET (1..PoolSize) : ApiIndexSession(s, fails)

SpecIndex == InitState /\ [][NextIndex]_vars

\* ------------------------------------------------- scraper (scraper.js)
\* Minimum length of a content item's text in buildContentItemsFromResults.
MinTextLength == 60

\* Characters of the text that enter an item's dedup signature.
SignaturePrefix == 120

\* The texts of raw results. "" is an empty text, "hi" a two-character one,
\* "ta" and "tb" are long English texts, " ta " is "ta" surrounded by white
\* space and links, "ta+" is a long text that starts with the same
\* characters as "ta" and goes on differently, "zz" is a long text in
\* another script.
RawTexts == {"", "hi", "ta", " ta ", "ta+", "tb", "zz"}

\* text.length
TextLength(t) ==
  CASE t = "" -> 0
    [] t = "hi" -> 2
    [] t = "ta" -> 200
    [] t = " ta " -> 260
    [] t = "ta+" -> 300
    [] OTHER -> 200

\* ContentExtractor.cleanText(raw): links and surrounding white space go.
cleanText(raw) == IF raw = " ta " THEN "ta" ELSE raw

\* text.slice(0, n), as the characters of the text it starts like and their
\* number.
TextSlice(t, n) ==
  IF TextLength(t) <= n THEN [of |-> t, chars |-> TextLength(t)]
  ELSE [of |-> IF t = "ta+" THEN "ta" ELSE t, chars |-> n]

\* ContentExtractor.extractTopic(text): taken from the first sentence.
extractTopic(t) ==
  CASE t \in {"ta", "ta+"} -> "about ta"
    [] t = "tb" -> "about tb"
    [] OTHER -> "general"

\* ConsciousnessScraper.isLikelyEnglish(text)
isLikelyEnglish(t) == t \notin {"", "hi", "zz"}

\* ContentExtractor.extractContentItem(text, url, publishedDate, title); it
\* sets no knowledge_domain.
extractContentItem(text, title) ==
  LET cleanedText == cleanText(text)
  IN Item(cleanedText, IF Falsy(title) THEN extractTopic(cleanedText) ELSE title,
          Undefined)

\* `${contentItem.text.slice(0, 120)}|${contentItem.topic}`
Signature(text, topic) == <<TextSlice(text, SignaturePrefix), topic>>

\* buildContentItemsFromResults(results, limit) from result i on, with the
\* items pushed and the signatures seen so far. `seen` is local to the call.
RECURSIVE BuildFrom(_, _, _, _, _)
BuildFrom(results, i, items, seen, limit) ==
  IF i > Len(results) THEN items
  ELSE IF results[i].text = "" THEN BuildFrom(results, i + 1, items, seen, limit)
  ELSE LET contentItem == extractContentItem(results[i].text, results[i].title)
           signature == Signature(contentItem.text, contentItem.topic)
       IN IF contentItem.text = "" \/ TextLength(contentItem.text) < MinTextLength
          THEN BuildFrom(results, i + 1, items, seen, limit)
          ELSE IF ~isLikelyEnglish(contentItem.text)
          THEN BuildFrom(results, i + 1, items, seen, limit)
          ELSE IF signature \in seen
          THEN BuildFrom(results, i + 1, items, seen, limit)
          ELSE IF Len(items) + 1 >= limit
          THEN Append(items, contentItem)
          ELSE BuildFrom(results, i + 1, Append(items, contentItem),
                         seen \cup {signature}, limit)

buildContentItemsFromResults(results, limit) == BuildFrom(results, 1, <<>>, {}, limit)

\* sourcesToScrape of one scrape() call: urls, each once.
SourcesToScrape == <<"u1", "u2">>

\* What a source returns: the cached search results of its url, or the
\* results of getContents / findSimilar.
RawResultLists ==
  UNION {[1..n -> [text : RawTexts, title : {Undefined, "t1"}]] : n \in 0..MaxResults}

\* scrape({name, limit}) is called.
ScrapeStart(limit) ==
  /\ scrapeLimit = 0
  /\ scrapeLimit' = limit
  /\ UNCHANGED <<sourcesAttempted, scrapedContent, ragVars, reqVars, apiVars,
                 appVars, chatVars>>

\* One turn of scrape()'s loop over sourcesToScrape: the source's results
\* go through buildContentItemsFromResults, and a source with at least one
\* item is pushed to scrapedContent. A source that fails yields no result.
ScrapeSource(rawResults) ==
  /\ scrapeLimit > 0
  /\ sourcesAttempted < Len(SourcesToScrape)
  /\ sourcesAttempted' = sourcesAttempted + 1
  /\ LET results == buildContentItemsFromResults(rawResults, scrapeLimit)
     IN scrapedContent' =
          IF Len(results) > 0
          THEN Append(scrapedContent,
                      [url |-> SourcesToScrape[sourcesAttempted'],
                       content_items |-> results])
          ELSE scrapedContent
  /\ UNCHANGED <<scrapeLimit, ragVars, reqVars, apiVars, appVars, chatVars>>

\* The scrape result is saved as the session's scrapedData, and
\* indexSession(sessionId, vectorStore) runs over it on an empty store.
IndexScraped(fails) ==
  /\ sourcesAttempted = Len(SourcesToScrape)
  /\ ret.op = "none"
  /\ LET items == FlatFrom(scrapedContent, 1)
         r == IndexFrom(documents[ApiHandle], items, 1,
                        fails \cap (1..Len(items)),
                        [k \in 1..Len(items) |-> <<ApiHandle, k>>], 0)
     IN /\ documents' = [documents EXCEPT ![ApiHandle] = r.documents]
        /\ ret' = [NoRet EXCEPT !.op = "indexSession", !.raised = r.raised,
                                !.indexed = r.indexed, !.fails = fails]
  /\ UNCHANGED <<disk, storeSession, embedCalls, lastSaved, ops, reqVars,
                 appVars, scrapeVars, chatVars>>

NextScrape ==
  \/ \E limit \in 1..MaxResults : ScrapeStart(limit)
  \/ \E rawResults \in RawResultLists : ScrapeSource(rawResults)
  \/ \E fails \in {{}, {2}} : IndexScraped(fails)

SpecScrape == InitState /\ [][NextScrape]_vars

\* ================================================================== claims
ApiDocs == documents[ApiHandle]
ApiPath == StorePath(ApiHandle)

\* A request is inside initRAG's build: indexSession's loop or the save()
\* that follows it.
InBuild(r) == pc[r] \in {"index", "save", "writing"}

\* C1: single in-flight build. For one session, no two requests are inside
\* a build at the same time (the second awaits the first), and as long as no
\* embedding failed the Embedding Port has been called for indexing at most
\* once per content item of the session.
C1_SingleInFlightBuild ==
  \A s \in Sessions :
    /\ \A r1, r2 \in Reqs :
         r1 # r2 /\ storeSession[r1] = s /\ storeSession[r2] = s
           => ~(InBuild(r1) /\ InBuild(r2))
    /\ (\A r \in Reqs : ~run[r].indexRaised)
         => embedCalls[s] <= Len(FlatItems(s))

\* C2: partial-failure tolerance. An indexing pass that has ended did not
\* raise and visited every item, whatever embeddings failed.
C2_PartialFailureTolerance ==
  \A r \in Reqs :
    run[r].indexed /\ pc[r] \notin {"load", "index"}
      => ~run[r].indexRaised /\ cursor[r] > Len(FlatItems(storeSession[r]))

\* C3: idempotent cache hit. A call of indexSession on a store that holds a
\* document changes neither the store nor the number of Embedding Port calls.
C3_IdempotentCacheHit ==
  [][(ops' # ops /\ ret'.op = "indexSession" /\ Len(ApiDocs) > 0)
       => documents' = documents /\ embedCalls' = embedCalls]_vars

\* C4: round trip. After load() from a path that save() wrote, the store
\* holds the documents that save() was given: same order, same id, text,
\* metadata and embedding; load() did not raise.
C4_RoundTrip ==
  (ret.op = "load" /\ lastSaved[ApiPath].saved)
    => ~ret.raised /\ ApiDocs = lastSaved[ApiPath].documents

\* C4 witness: a saved store with a document that has metadata was loaded
\* back into a store after other calls.
C4_Witness ==
  /\ ret.op = "load"
  /\ lastSaved[ApiPath].saved
  /\ Len(ApiDocs) >= 1
  /\ \E i \in 1..Len(ApiDocs) : ApiDocs[i].metadata["topic"] # Undefined
  /\ ops = MaxOps

\* C5: bounded results. For topK >= 1 search returns exactly
\* min(topK, size()) results; on the empty store that is the empty list.
C5_BoundedResults ==
  (ret.op = "search" /\ ret.topK >= 1)
    => /\ Len(ret.results) = Min(ret.topK, Len(ApiDocs))
       /\ ~ret.raised

\* C5 witness: a search that cut a store of three down to two.
C5_Witness ==
  /\ ret.op = "search"
  /\ ret.topK = 2
  /\ Len(ApiDocs) = 3
  /\ Len(ret.results) = 2

\* C6: deterministic ordering. The results are sorted by descending score,
\* and results of equal score are in ascending id order.
C6_DeterministicOrdering ==
  ret.op = "search"
    => \A i, j \in 1..Len(ret.results) :
         i < j => \/ ScoreGreater(ret.results[i].score, ret.results[j].score)
                  \/ /\ ScoreEqual(ret.results[i].score, ret.results[j].score)
                     /\ ~IdLess(ret.results[j].id, ret.results[i].id)

ScoreOfDoc(i) == cosineSimilarity(ret.query, ApiDocs[i].embedding)

\* C7: top-K correctness. Every result is a stored document with its score;
\* every stored document that scores strictly higher than a returned one is
\* returned as well; and for the embeddings [1,0], [0,1], [0.7,0.7], the
\* query [1,0] and topK = 2 the result is the first document, then the third.
C7_TopKCorrect ==
  (ret.op = "search" /\ ret.topK >= 1)
    => /\ \A j \in 1..Len(ret.results) :
            /\ \E i \in 1..Len(ApiDocs) :
                 /\ ApiDocs[i].id = ret.results[j].id
                 /\ ApiDocs[i].text = ret.results[j].text
                 /\ ScoreOfDoc(i) = ret.results[j].score
            /\ Cardinality({i \in 1..Len(ApiDocs) :
                              ScoreGreater(ScoreOfDoc(i), ret.results[j].score)})
               = Cardinality({k \in 1..Len(ret.results) :
                              ScoreGreater(ret.results[k].score, ret.results[j].score)})
       /\ ( /\ Len(ApiDocs) = 3
            /\ ApiDocs[1].embedding = <<10, 0>>
            /\ ApiDocs[2].embedding = <<0, 10>>
            /\ ApiDocs[3].embedding = <<7, 7>>
            /\ ret.query = <<10, 0>>
            /\ ret.topK = 2 )
          => /\ Len(ret.results) = 2
             /\ ret.results[1].id = ApiDocs[1].id
             /\ ret.results[1].embedding = <<10, 0>>
             /\ ret.results[2].id = ApiDocs[3].id
             /\ ret.results[2].embedding = <<7, 7>>

\* C7 witness: the worked example has been searched.
C7_Witness ==
  /\ ret.op = "search"
  /\ Len(ApiDocs) = 3
  /\ ApiDocs[1].embedding = <<10, 0>>
  /\ ApiDocs[2].embedding = <<0, 10>>
  /\ ApiDocs[3].embedding = <<7, 7>>
  /\ ret.query = <<10, 0>>
  /\ ret.topK = 2
  /\ Len(ret.results) = 2

\* C8: fallback on retrieval failure. When embedding the question failed,
\* rag.query raised, the Generation Port was not called for that query and
\* no answer with sources came back.
C8_RetrievalFailure ==
  \A r \in Reqs :
    run[r].embedFailed
      => /\ run[r].outcome = "raised"
         /\ run[r].genCalls = 0
         /\ run[r].sources = <<>>
         /\ run[r].response # "rag"

\* C8 witness: a request on a populated store whose question embedding
\* failed and that then ended.
C8_Witness ==
  \E r \in Reqs :
    /\ run[r].embedFailed
    /\ Len(documents[r]) > 0
    /\ pc[r] = "done"

\* C9: corrupted snapshot. load() never raises, and after load() of a
\* snapshot that does not parse the store is empty.
C9_CorruptedSnapshot ==
  ret.op = "load"
    => /\ ~ret.raised
       /\ (disk[ApiPath].kind = "garbage" => Len(ApiDocs) = 0)

\* C10: unique ids. No two documents of a store share an id.
C10_UniqueIds ==
  \A i, j \in 1..Len(ApiDocs) : i # j => ApiDocs[i].id # ApiDocs[j].id

\* ---------------------------------------------------------------- C11
\* The urls of the session's scraped sources.
SessionUrls(s) == {ScrapedData(s)[i].url : i \in 1..Len(ScrapedData(s))}

\* Every document request r holds, retrieved or returned as a source was
\* indexed from r's own session.
OwnDocuments(r) ==
  /\ \A i \in 1..Len(documents[r]) :
       documents[r][i].metadata["url"] \in SessionUrls(storeSession[r])
  /\ \A i \in 1..Len(run[r].relevantDocs) :
       run[r].relevantDocs[i].metadata["url"] \in SessionUrls(storeSession[r])
  /\ \A i \in 1..Len(run[r].sources) :
       run[r].sources[i].metadata["url"] \in SessionUrls(storeSession[r])

\* Request r takes a step.
Stepped(r) == pc'[r] # pc[r] \/ cursor'[r] # cursor[r]

\* A step of a request on one session leaves every other session's snapshot
\* and every other session's stores as they were.
OtherSessionsUntouched ==
  \A r \in Reqs :
    Stepped(r)
      => \A t \in Sessions \ {storeSession'[r]} :
           /\ disk'[storePathForSession(t)] = disk[storePathForSession(t)]
           /\ \A o \in Reqs \ {r} :
                storeSession[o] = t
                  => documents'[o] = documents[o] /\ storeSession'[o] = t

\* C11: session independence. Whatever the interleaving of initRAG, indexing,
\* save(), load() and queries, a step on one session changes neither the
\* snapshot nor the in-memory stores of another session, and no store,
\* search result or source holds a document indexed for another session.
C11_SessionIndependence ==
  /\ [](\A r \in Reqs : OwnDocuments(r))
  /\ [][OtherSessionsUntouched]_vars

\* C11 witness: two sessions were built, saved and queried side by side.
C11_Witness ==
  \E r1, r2 \in Reqs :
    /\ storeSession[r1] = "s1" /\ storeSession[r2] = "s2"
    /\ run[r1].outcome = "returned" /\ run[r2].outcome = "returned"
    /\ Len(run[r1].sources) > 0 /\ Len(run[r2].sources) > 0
    /\ Len(disk[storePathForSession("s1")].entries) > 0
    /\ Len(disk[storePathForSession("s2")].entries) > 0

\* ---------------------------------------------------------------- C12
\* C12: serialized snapshot writes. No two requests are inside writeFile on
\* one snapshot at the same time, and once the writers of a snapshot are done
\* the file holds the complete document list of one of them.
C12_SerializedWrites ==
  /\ \A r1, r2 \in Reqs :
       r1 # r2 /\ StorePath(r1) = StorePath(r2)
         => ~(pc[r1] = "writing" /\ pc[r2] = "writing")
  /\ \A s \in Sessions :
       (lastSaved[s].saved /\ \A r \in Reqs : ~(pc[r] = "writing" /\ StorePath(r) = s))
         => \E r \in Reqs :
              /\ StorePath(r) = s
              /\ disk[s] = JsonStringify(documents[r])

\* ---------------------------------------------------------------- C13
\* Request r is past initRAG's load().
PastLoad(r) == pc[r] \notin {"idle", "load"}

\* Request r2 started from the snapshot: it did not enter indexSession, made
\* no indexing call and holds the documents last saved for its session.
StartedFromSnapshot(r2) ==
  /\ ~run[r2].indexed
  /\ ~run[r2].indexRaised
  /\ cursor[r2] = 1
  /\ run[r2].initOutcome = "returned"
  /\ Len(documents[r2]) > 0
  /\ lastSaved[StorePath(r2)].saved
  /\ documents[r2] = lastSaved[StorePath(r2)].documents

ApiRun == run[ApiHandle]

\* The final user message of the generation request.
FinalMessage == ApiRun.messages[Len(ApiRun.messages)]

\* C14: sources match context. When a query returned, its sources are the
\* retrieval results the prompt was built from: as many sources as numbered
\* snippets, source i is snippet [i], with the text, metadata and score of
\* the i-th result of the search.
C14_SourcesMatchContext ==
  ApiRun.outcome = "returned"
    => /\ ApiRun.relevantDocs =
            VectorStoreSearch(ApiDocs, EmbedVec(ApiRun.question), ApiRun.options.topK)
       /\ Len(ApiRun.sources) = Len(FinalMessage.snippets)
       /\ Len(ApiRun.sources) = Len(ApiRun.relevantDocs)
       /\ \A i \in 1..Len(ApiRun.sources) :
            /\ FinalMessage.snippets[i].n = i
            /\ FinalMessage.snippets[i].text = ApiRun.sources[i].text
            /\ ApiRun.sources[i].text = ApiRun.relevantDocs[i].text
            /\ ApiRun.sources[i].metadata = ApiRun.relevantDocs[i].metadata
            /\ ApiRun.sources[i].score = ApiRun.relevantDocs[i].score

\* C14 witness: a query returned two sources of a store of three.
C14_Witness ==
  /\ ApiRun.outcome = "returned"
  /\ Len(ApiDocs) = 3
  /\ Len(ApiRun.sources) = 2
  /\ ApiRun.sources[1].text # ApiRun.sources[2].text

\* ---------------------------------------------------------------- C15
\* The RAG path of request r failed: initRAG or rag.query raised.
RagFailed(r) == run[r].initOutcome = "raised" \/ run[r].outcome = "raised"

C16_NonPositiveTopK ==
  (ret.op = "search" /\ ret.topK <= 0) => Len(ret.results) = 0

\* ---------------------------------------------------------------- C17
\* C17: SessionNotFound is fatal. For a session without scraped data
\* initRAG raises: the request gets no query handle, no query is made and no
\* answer with sources comes back; and no snapshot is written for the
\* session.
C17_SessionNotFound ==
  \A s \in Sessions :
    ~HasScraped(s)
      => /\ disk[storePathForSession(s)] = Absent
         /\ ~lastSaved[storePathForSession(s)].saved
         /\ \A r \in Reqs :
              (storeSession[r] = s /\ PastLoad(r))
                => /\ run[r].initOutcome = "raised"
                   /\ run[r].outcome = "none"
                   /\ run[r].genCalls = 0
                   /\ run[r].sources = <<>>
                   /\ run[r].response # "rag"

\* C17 witness: a request for the session without scraped data has ended.
C17_Witness ==
  \E r \in Reqs :
    /\ ~HasScraped(storeSession[r])
    /\ pc[r] = "done"
    /\ run[r].initOutcome = "raised"

\* ---------------------------------------------------------------- C18
\* C18: persona pass-through. The first message of the generation request is
\* the system message; its content is the caller's systemPrompt when that is
\* not empty, and the session's stored masterPrompt when the caller gave none
\* and the session has one.
C18_PersonaPassThrough ==
  ApiRun.messages # <<>>
    => /\ ApiRun.messages[1].role = "system"
       /\ ApiRun.messages[1].snippets = <<>>
       /\ ~Falsy(ApiRun.options.systemPrompt)
            => ApiRun.messages[1].text = ApiRun.options.systemPrompt
       /\ (Falsy(ApiRun.options.systemPrompt) /\ ~Falsy(MasterPrompt(storeSession[ApiHandle])))
            => ApiRun.messages[1].text = MasterPrompt(storeSession[ApiHandle])

\* C18 witness: a request was built for a caller with a systemPrompt of its
\* own on a session that has a masterPrompt.
C18_Witness ==
  /\ ApiRun.messages # <<>>
  /\ ApiRun.options.systemPrompt = "custom"
  /\ MasterPrompt(storeSession[ApiHandle]) = "persona1"
  /\ ApiRun.messages[1].text = "custom"

\* ---------------------------------------------------------------- C19
\* C19: bounded conversation window. For every key, recentMessages holds at
\* most 6 messages, they are the last messages added for the key in the
\* order they were added, and totalExchanges is the number of
\* addToConversationHistory calls for the key.
C19_BoundedWindow ==
  \A key \in ConversationKeys :
    LET session == conversationSessions[key]
        added == addedMessages[key]
    IN /\ Len(session.recentMessages) <= 6
       /\ Len(session.recentMessages) = Min(6, Len(added))
       /\ \A i \in 1..Len(session.recentMessages) :
            session.recentMessages[i]
              = added[Len(added) - Len(session.recentMessages) + i]
       /\ 2 * session.totalExchanges = Len(added)

\* C19 witness: after four exchanges on one key the first one is gone.
C19_Witness ==
  \E key \in ConversationKeys :
    /\ Len(addedMessages[key]) = 8
    /\ Len(conversationSessions[key].recentMessages) = 6
    /\ conversationSessions[key].recentMessages[1] = addedMessages[key][3]
    /\ addedMessages[key][1] # addedMessages[key][3]

\* ---------------------------------------------------------------- C20
\* C20: prompt layout. The generation request is one system message, then
\* the last 5 entries of the conversation history in their order (all of
\* them when there are fewer), then one user message with the numbered
\* snippets and the question: 1 + min(5, |history|) + 1 messages.
C20_PromptLayout ==
  ApiRun.messages # <<>>
    => LET history == ApiRun.options.conversationHistory
           n == Min(5, Len(history))
       IN /\ Len(ApiRun.messages) = 1 + n + 1
          /\ ApiRun.messages[1].role = "system"
          /\ \A i \in 1..n :
               /\ ApiRun.messages[1 + i].role = history[Len(history) - n + i].role
               /\ ApiRun.messages[1 + i].text = history[Len(history) - n + i].content
               /\ ApiRun.messages[1 + i].snippets = <<>>
          /\ FinalMessage.role = "user"
          /\ FinalMessage.text = ApiRun.question
          /\ FinalMessage.snippets = ContextLines(ApiRun.relevantDocs)

\* C20 witness: a request built from a history of six entries that do not
\* all look alike.
C20_Witness ==
  /\ Len(ApiRun.options.conversationHistory) = 6
  /\ ApiRun.options.conversationHistory[1] # ApiRun.options.conversationHistory[6]
  /\ Len(ApiRun.messages) = 7
  /\ Len(ApiRun.relevantDocs) > 0

\* ---------------------------------------------------------------- C21
\* The indexing pass of request r has ended without a document in the store.
EmbeddedNothing(r) ==
  /\ run[r].indexed
  /\ pc[r] \notin {"load", "index"}
  /\ Len(documents[r]) = 0

\* r2 is the first request after r1 for the same session.
NextOnSession(r1, r2) ==
  /\ r1 < r2
  /\ storeSession[r1] = storeSession[r2]
  /\ pc[r2] # "idle"
  /\ \A m \in Reqs : (r1 < m /\ m < r2) => storeSession[m] # storeSession[r1]

\* C21: total indexing failure. After an indexing pass that embedded no
\* document (the embedding failed, or the session has no content item) the
\* next initRAG for the session enters indexSession again instead of
\* starting from a cached store.
C21_TotalFailureReindexes ==
  \A r1, r2 \in Reqs :
    (NextOnSession(r1, r2) /\ EmbeddedNothing(r1) /\ PastLoad(r2))
      => run[r2].indexed

\* C21 witness: a request whose first embedding failed, followed by a
\* request for the same session that indexed again.
C21_Witness ==
  \E r1, r2 \in Reqs :
    /\ NextOnSession(r1, r2)
    /\ EmbeddedNothing(r1)
    /\ Len(FlatItems(storeSession[r1])) > 0
    /\ run[r1].indexRaised
    /\ pc[r2] = "done"
    /\ run[r2].indexed

\* ---------------------------------------------------------------- C22
\* C22: conditional persistence. save() after an indexing pass is given at
\* least one document, and no snapshot without documents is written.
C22_ConditionalPersistence ==
  \A s \in Sessions :
    /\ lastSaved[storePathForSession(s)].saved
         => Len(lastSaved[storePathForSession(s)].documents) > 0
    /\ disk[storePathForSession(s)].kind = "array"
         => Len(disk[storePathForSession(s)].entries) > 0

\* ---------------------------------------------------------------- C23
\* C23: builds are never half-done. Once a snapshot has been written for a
\* session, the file is absent, empty, or the documents of one complete
\* indexing pass: one document per content item of the session.
C23_NeverHalfDone ==
  \A s \in Sessions :
    lastSaved[storePathForSession(s)].saved
      => /\ disk[storePathForSession(s)].kind # "garbage"
         /\ disk[storePathForSession(s)].kind = "array"
              => \/ Len(disk[storePathForSession(s)].entries) = 0
                 \/ /\ Len(disk[storePathForSession(s)].entries) = Len(FlatItems(s))
                    /\ \A i \in 1..Len(FlatItems(s)) :
                         disk[storePathForSession(s)].entries[i].text
                           = FlatItems(s)[i].item.text

\* ---------------------------------------------------------------- C24
\* C24: after indexSession over the scraped content of a session (the same
\* item may come back within one source or from two sources) the store holds
\* no document with an empty or too short text and no two documents with the
\* same dedup signature.
C24_NoUnusableNoDuplicate ==
  ret.op = "indexSession" =>
    /\ \A i \in 1..Len(ApiDocs) :
         ApiDocs[i].text # "" /\ TextLength(ApiDocs[i].text) >= MinTextLength
    /\ \A i, j \in 1..Len(ApiDocs) :
         i # j => Signature(ApiDocs[i].text, ApiDocs[i].metadata.topic)
                    # Signature(ApiDocs[j].text, ApiDocs[j].metadata.topic)

\* ---------------------------------------------------------------- C25
\* C25: one rag.query call calls the Embedding Port at most once for the
\* question and the Generation Port at most once; a failed embedding ends
\* the call as raised with no generation, and a failed generation ends it as
\* raised after its single call.
C25_NoInternalRetry ==
  /\ ApiRun.questionEmbedCalls <= 1
  /\ ApiRun.genCalls <= 1
  /\ ApiRun.embedFailed => (ApiRun.outcome = "raised" /\ ApiRun.genCalls = 0)
  /\ pc[ApiHandle] = "done" =>
       /\ ApiRun.questionEmbedCalls = 1
       /\ ApiRun.outcome \in {"returned", "raised"}
       /\ ~ApiRun.embedFailed => ApiRun.genCalls = 1

\* C25 witness: a query whose generation failed, after one call of each port.
C25_Witness ==
  /\ pc[ApiHandle] = "done"
  /\ ApiRun.outcome = "raised"
  /\ ~ApiRun.embedFailed
  /\ ApiRun.questionEmbedCalls = 1
  /\ ApiRun.genCalls = 1

\* ---------------------------------------------------------------- C26
\* The snapshot is what the most recent save() wrote.
SnapshotIsLastSave ==
  lastSaved[ApiPath].saved =>
    disk[ApiPath] = JsonStringify(lastSaved[ApiPath].documents)

\* A call other than save() leaves every snapshot as it was, and add() and
\* clear() change nothing but the in-memory list.
OnlySaveWrites ==
  /\ ret'.op # "save" => disk' = disk /\ lastSaved' = lastSaved
  /\ ret'.op \in {"add", "clear"} => storeSession' = storeSession

\* C26: add() and clear() change only the in-memory list; the snapshot
\* changes only when save() is called, so it always equals the document
\* list as of the most recent save().
C26_NoImplicitAutosave == []SnapshotIsLastSave /\ [][OnlySaveWrites]_vars

\* C26 witness: after a save(), an add() or clear() has made the in-memory
\* list differ from the saved one.
C26_Witness ==
  /\ lastSaved[ApiPath].saved
  /\ ret.op \in {"add", "clear"}
  /\ ApiDocs # lastSaved[ApiPath].documents

\* ---------------------------------------------------------------- C27
\* The array the caller passed as options.conversationHistory.
CallerHistory(rn) == rn.options.conversationHistory

\* C27: no step of ragQuery or generateAnswer, successful or failed,
\* changes the caller's conversationHistory: it keeps its length, its order
\* and its contents.
C27_HistoryReadOnly ==
  [][CallerHistory(run'[ApiHandle]) = CallerHistory(run[ApiHandle])]_vars

\* C27 witness: a query that returned with a history longer than the
\* window generateAnswer uses.
C27_Witness ==
  /\ pc[ApiHandle] = "done"
  /\ ApiRun.outcome = "returned"
  /\ Len(CallerHistory(ApiRun)) > HistoryLimit
  /\ Len(ApiRun.messages) = HistoryLimit + 2

\* ---------------------------------------------------------------- C28
\* Content items of the sources before source a.
RECURSIVE ItemsBefore(_, _)
ItemsBefore(sources, a) ==
  IF a <= 1 THEN 0
  ELSE ItemsBefore(sources, a - 1) + Len(sources[a - 1].content_items)

\* Document k of docs was made from item b of source a.
MadeFrom(doc, source, b) ==
  /\ doc.text = source.content_items[b].text
  /\ doc.embedding = EmbedVec(source.content_items[b].text)
  /\ doc.metadata.url = source.url
  /\ doc.metadata.topic = source.content_items[b].topic
  /\ doc.metadata.knowledge_domain = source.content_items[b].knowledge_domain

\* The step is an indexSession call on an empty store in which no embedding
\* failed.
CleanIndexing ==
  /\ ret'.op = "indexSession"
  /\ ApiDocs = <<>>
  /\ HasScraped(ret'.session)
  /\ ret'.fails \cap (1..Len(FlatItems(ret'.session))) = {}

\* C28: indexSession on an empty store with every embedding succeeding adds
\* exactly one document per content item, in source order and then item
\* order within each source, and the indexed count it returns is size().
C28_OneDocumentPerItem ==
  [][CleanIndexing =>
       LET sources == ScrapedData(ret'.session)
           docs == documents'[ApiHandle]
       IN /\ ~ret'.raised
          /\ Len(docs) = ItemsBefore(sources, Len(sources) + 1)
          /\ ret'.indexed = Len(docs)
          /\ \A a \in 1..Len(sources) :
               \A b \in 1..Len(sources[a].content_items) :
                 MadeFrom(docs[ItemsBefore(sources, a) + b], sources[a], b)]_vars

\* C28 witness: the session with two sources was indexed into an empty
\* store without a failure.
C28_Witness ==
  /\ ret.op = "indexSession"
  /\ ret.session = "s1"
  /\ ~ret.raised
  /\ ret.indexed = Len(FlatItems("s1"))
  /\ Len(ApiDocs) = ret.indexed

\* ---------------------------------------------------------------- C29
\* C29: the conversation history handleChat passes to the RAG query holds
\* only the messages saved before the current request, so the current user
\* message is in the prompt as the final question only; with the mock
\* message store as with Supabase.
C29_HistoryBeforeRequest ==
  ApiRun.questionEmbedCalls > 0 =>
    /\ CallerHistory(ApiRun) = ChatOptions(savedBefore).conversationHistory
    /\ ~ApiRun.embedFailed =>
         ApiRun.messages =
           GenerateAnswerMessages(ApiRun.question, ApiRun.relevantDocs,
                                  ApiRun.masterPrompt,
                                  ChatOptions(savedBefore).conversationHistory)

\* ---------------------------------------------------------------- C30
\* A stored document has the fields add() gave it and no score.
NoStoredScore ==
  \A i \in 1..Len(ApiDocs) :
    DOMAIN ApiDocs[i] = {"id", "text", "metadata", "embedding"}

\* C30: search() and ragQuery() leave the document list (order, ids, text,
\* metadata, embeddings) and the persisted snapshot as they were, and no
\* stored document gets a score field, however many queries the handle
\* answers.
C30_QueryReadOnly ==
  []NoStoredScore /\ [][documents' = documents /\ disk' = disk]_vars

\* C30 witness: a later query on the same handle returned documents in
\* another order than the store keeps them.
C30_Witness ==
  /\ pc[ApiHandle] = "done"
  /\ ops > 0
  /\ ApiRun.outcome = "returned"
  /\ Len(ApiRun.relevantDocs) > 1
  /\ ApiRun.relevantDocs[1].id # ApiDocs[1].id

====
